---- MODULE Spec2Model ----
(***************************************************************************)
(* Model of the deployment pipeline engine of banuap/lowerenv.             *)
(*                                                                         *)
(* Two implementations of the pipeline life cycle share the Deployment and *)
(* Pipeline collections:                                                   *)
(*   - the HTTP routes: POST /:id/trigger (with its setTimeout completion  *)
(*     callback) and POST /details/:pipelineId/cancel;                     *)
(*   - PipelineOrchestrator: startPipeline, executePipeline, executeStep,  *)
(*     cancelPipeline.                                                     *)
(*                                                                         *)
(* Every handler is an async function.  It is cut at its awaits: one       *)
(* action is the synchronous code that runs after an await resolves        *)
(* together with the storage call it issues next.  Code between awaits     *)
(* touches only the handler's own in-memory documents, so it commutes with *)
(* the other handlers' actions.                                            *)
(*                                                                         *)
(* Storage is the document store behind the models: findOne/findById read  *)
(* a snapshot into an in-memory document, save() writes the paths the      *)
(* handler assigned since the document was loaded or created, and          *)
(* findByIdAndUpdate writes the given fields.  Every call is atomic and    *)
(* succeeds unless an action says otherwise.  Timestamps (new Date()) are  *)
(* kept as "set"/"unset", except lastDeployedAt, which counts its writes.  *)
(* uuidv4() identifiers of steps are pairs <<seed, position>>: the seed    *)
(* stands for the draws of one buildPipelineSteps call.                    *)
(***************************************************************************)
EXTENDS Integers, Sequences, FiniteSets, TLC

\* Number of trigger request slots; a slot creates at most one pipeline.
MaxRequests == 2

Requests == 1..MaxRequests

\* Number of orchestrator runs where cancellation is modelled with them.
MaxRuns == 1

Runs == 1..MaxRuns

\* Number of seeds a buildPipelineSteps call may draw its identifiers from.
MaxSeed == 4

Seeds == 1..MaxSeed

\* The two calls of buildPipelineSteps that are compared.
Builds == {"first", "second"}

\* Deployment identifiers a request may name; "dx" is never stored.
DeploymentIds == {"d1", "dx"}

TerminalStatuses == {"completed", "failed", "cancelled"}
ActiveStatuses == {"pending", "running"}

\* The deployment configurations the model starts from: the sections present
\* under config, and the deploymentType discriminator.
DeploymentConfigs ==
  { [sections |-> {"helm"}, deploymentType |-> "helm"],
    [sections |-> {"terraform", "helm"}, deploymentType |-> "hybrid"] }

\* Every combination of sections config may carry.
BuildConfigs == SUBSET {"terraform", "helm", "ansible"}

\* The statuses a step may be found in (the persisted ones, and cancelled).
StepStatuses == {"pending", "running", "completed", "failed", "skipped", "cancelled"}

VARIABLES
  deployments,  \* Deployment collection: id -> document
  pipelines,    \* Pipeline collection: id -> document
  req,          \* per request slot: the trigger's position, locals and answer
  mem,          \* per request slot: executePipeline's in-memory pipeline document
  rc,           \* the cancel route's handler
  oc,           \* the cancelPipeline call
  built,        \* per build: the step list a buildPipelineSteps call returned
  events        \* the events emitted to the deployments' rooms so far

vars == <<deployments, pipelines, req, mem, rc, oc, built, events>>

----------------------------------------------------------------------------
\* Step documents

\* Faulty variants of NewStep: the dependencies are left out; the dependencies
\* carry the identifiers drawn by the first build.
NewStepNoDeps(id, type, deps) ==
  [id |-> id, type |-> type, status |-> "pending", startTime |-> FALSE,
   endTime |-> FALSE, logs |-> <<>>, dependencies |-> {}]

NewStepStaleDeps(id, type, deps) ==
  [id |-> id, type |-> type, status |-> "pending", startTime |-> FALSE,
   endTime |-> FALSE, logs |-> <<>>, dependencies |-> {<<1, d[2]>> : d \in deps}]

NewStep(id, type, deps) ==
  [id |-> id, type |-> type, status |-> "pending", startTime |-> FALSE,
   endTime |-> FALSE, logs |-> <<>>, dependencies |-> deps]

\* uuidv4() for a step appended to steps by the build that draws from seed:
\* an identifier no other step of this or of another build has.
\* Faulty variant of FreshId: one identifier for all the steps of a build.
FreshIdRepeated(seed, steps) == <<seed, 1>>

FreshId(seed, steps) == <<seed, Len(steps) + 1>>

buildPipelineSteps(deployment, seed) ==
  LET s1 == <<NewStep(FreshId(seed, <<>>), "clone", {})>>
      s2 == IF "terraform" \in deployment.sections
            THEN LET plan == Append(s1, NewStep(FreshId(seed, s1), "terraform-plan", {s1[1].id}))
                 IN  Append(plan, NewStep(FreshId(seed, plan), "terraform-apply", {plan[2].id}))
            ELSE s1
      s3 == IF "helm" \in deployment.sections
            THEN Append(s2, NewStep(FreshId(seed, s2), "helm-deploy",
                                    IF "terraform" \in deployment.sections
                                    THEN {s2[3].id} ELSE {s2[1].id}))
            ELSE s2
      s4 == IF "ansible" \in deployment.sections
            THEN Append(s3, NewStep(FreshId(seed, s3), "ansible-run", {s3[Len(s3)].id}))
            ELSE s3
  IN  s4

\* pipelineStepSchema: the enum of a stored step's type and of its status.
SchemaStepTypes == {"clone", "build", "terraform", "helm", "ansible", "notify"}

SchemaStepStatuses == {"pending", "running", "completed", "failed", "skipped"}

\* The four steps the trigger route writes; they carry no dependencies.
RouteSteps(deployment) ==
  << NewStep(1, "clone", {}), NewStep(2, "build", {}),
     NewStep(3, deployment.deploymentType, {}), NewStep(4, "notify", {}) >>

\* allSteps.find(s => s.id === depId): the first match, 0 when there is none.
FindStep(allSteps, depId) ==
  LET hits == {k \in 1..Len(allSteps) : allSteps[k].id = depId}
  IN  IF hits = {} THEN 0 ELSE CHOOSE k \in hits : \A j \in hits : k <= j

\* Faulty variant of areDependenciesCompleted: a dependency that resolves to no
\* step counts as met.
areDependenciesCompletedOrMissing(step, allSteps) ==
  \A depId \in step.dependencies :
     LET k == FindStep(allSteps, depId)
     IN  k = 0 \/ allSteps[k].status = "completed"

areDependenciesCompleted(step, allSteps) ==
  \A depId \in step.dependencies :
     LET k == FindStep(allSteps, depId)
     IN  k # 0 /\ allSteps[k].status = "completed"

----------------------------------------------------------------------------
\* In-memory pipeline document of executePipeline

NoMem == [status |-> "none", endTime |-> FALSE, steps |-> <<>>, dirty |-> {}, i |-> 0]

\* executeStep up to its await of the collaborator.
executeStepBegin(step) ==
  [step EXCEPT !.status = "running", !.startTime = TRUE,
               !.logs = Append(@, "Starting step")]

\* The collaborator's output lines, pushed on success (clone pushes none).
StepOutput(step) == IF step.type = "clone" THEN <<>> ELSE <<"output">>

\* executeStep from the collaborator's return to pipeline.save().
executeStepEnd(step, ok) ==
  IF ok
  THEN [step EXCEPT !.status = "completed", !.endTime = TRUE,
                    !.logs = @ \o StepOutput(step) \o <<"Step completed successfully">>]
  ELSE [step EXCEPT !.status = "failed", !.endTime = TRUE,
                    !.logs = Append(@, "Step failed")]

\* Faulty variants of RunLoop: a skipped step gets an end timestamp; the loop
\* ends at a step whose dependencies are not completed.
RECURSIVE RunLoopSkipStamped(_, _)
RunLoopSkipStamped(m, i) ==
  IF i > Len(m.steps)
  THEN [m EXCEPT !.i = i]
  ELSE IF ~areDependenciesCompleted(m.steps[i], m.steps)
       THEN RunLoopSkipStamped([m EXCEPT !.steps[i].status = "skipped",
                                         !.steps[i].endTime = TRUE,
                                         !.dirty = @ \cup {i}], i + 1)
       ELSE [m EXCEPT !.steps[i] = executeStepBegin(@), !.dirty = @ \cup {i}, !.i = i]

RunLoopBreakOnBlocked(m, i) ==
  IF i > Len(m.steps)
  THEN [m EXCEPT !.i = i]
  ELSE IF ~areDependenciesCompleted(m.steps[i], m.steps)
       THEN [m EXCEPT !.steps[i].status = "skipped", !.dirty = @ \cup {i},
                      !.i = Len(m.steps) + 1]
       ELSE [m EXCEPT !.steps[i] = executeStepBegin(@), !.dirty = @ \cup {i}, !.i = i]

\* The for loop of executePipeline from step i on, up to the next await: steps
\* whose dependencies are not completed are marked skipped in memory, the
\* first other step is started.  i = Len + 1 when the loop ran off the end.
RECURSIVE RunLoop(_, _)
RunLoop(m, i) ==
  IF i > Len(m.steps)
  THEN [m EXCEPT !.i = i]
  ELSE IF ~areDependenciesCompleted(m.steps[i], m.steps)
       THEN RunLoop([m EXCEPT !.steps[i].status = "skipped", !.dirty = @ \cup {i}], i + 1)
       ELSE [m EXCEPT !.steps[i] = executeStepBegin(@), !.dirty = @ \cup {i}, !.i = i]

\* The steps pipeline.save() leaves in the store: the paths changed in memory
\* are written, the others keep the stored value.
SavedSteps(stored, m) ==
  [k \in DOMAIN stored |-> IF k \in m.dirty THEN m.steps[k] ELSE stored[k]]

----------------------------------------------------------------------------
IdleReq == [kind |-> "none", pc |-> "idle", dep |-> "dx", seen |-> "absent",
            answer |-> "none"]
IdleCancel == [pc |-> "idle", p |-> 0, steps |-> <<>>, seen |-> "none", depSeen |-> "none",
               answer |-> "none"]

Init ==
  /\ \E c \in DeploymentConfigs :
       deployments = [d \in {"d1"} |->
                        [status |-> "pending", lastDeployedAt |-> 0,
                         sections |-> c.sections, deploymentType |-> c.deploymentType]]
  /\ pipelines = <<>>
  /\ req = [r \in Requests |-> IdleReq]
  /\ mem = [r \in Requests |-> NoMem]
  /\ rc = IdleCancel
  /\ oc = IdleCancel
  /\ built = [b \in Builds |-> <<>>]
  /\ events = {}

\* A deployment record with any combination of sections, before any build.
InitBuild ==
  /\ \E c \in BuildConfigs :
       deployments = [d \in {"d1"} |->
                        [status |-> "pending", lastDeployedAt |-> 0,
                         sections |-> c, deploymentType |-> "hybrid"]]
  /\ pipelines = <<>>
  /\ req = [r \in Requests |-> IdleReq]
  /\ mem = [r \in Requests |-> NoMem]
  /\ rc = IdleCancel
  /\ oc = IdleCancel
  /\ built = [b \in Builds |-> <<>>]
  /\ events = {}

\* The status a findOne/findById of deployment d returns ("absent": no document).
ReadStatus(d) == IF d \in DOMAIN deployments THEN deployments[d].status ELSE "absent"

\* The status a findOne of pipeline p returns ("absent": no document).
StoredStatus(p) == IF p \in DOMAIN pipelines THEN pipelines[p].status ELSE "absent"

\* io.to(`deployment-${d}`).emit('pipeline-update', { pipelineId, step }).
StepEvent(d, p, i) == [room |-> d, kind |-> "step", pipelineId |-> p, step |-> i]

\* io.to(`deployment-${d}`).emit('pipeline-update', { pipelineId, status }).
StatusEvent(d, p, status) == [room |-> d, kind |-> "status", pipelineId |-> p, status |-> status]

NewPipeline(d, status, steps) ==
  [deploymentId |-> d, status |-> status, endTime |-> FALSE, steps |-> steps]

----------------------------------------------------------------------------
\* POST /:id/trigger

\* Deployment.findOne({ id }).  A slot whose last request was refused takes
\* the next request.
TriggerLoad(r, d) ==
  /\ req[r].pc \in {"idle", "rejected"}
  /\ req' = [req EXCEPT ![r] = [kind |-> "route", pc |-> "loaded", dep |-> d,
                                seen |-> ReadStatus(d), answer |-> "none"]]
  /\ UNCHANGED <<deployments, pipelines, mem, rc, oc, built, events>>

\* The 404 and 400 answers, or new PipelineModel({...}) and pipeline.save().
TriggerCreate(r) ==
  /\ req[r].kind = "route" /\ req[r].pc = "loaded"
  /\ IF req[r].seen = "absent"
     THEN /\ req' = [req EXCEPT ![r].pc = "rejected", ![r].answer = "NotFound"]
          /\ UNCHANGED pipelines
     ELSE IF req[r].seen = "running"
     THEN /\ req' = [req EXCEPT ![r].pc = "rejected", ![r].answer = "Conflict"]
          /\ UNCHANGED pipelines
     ELSE /\ pipelines' = pipelines @@
                 (r :> NewPipeline(req[r].dep, "pending", RouteSteps(deployments[req[r].dep])))
          /\ req' = [req EXCEPT ![r].pc = "pipelineSaved"]
  /\ UNCHANGED <<deployments, mem, rc, oc, built, events>>

\* deployment.status = 'running'; lastDeployedAt = new Date(); deployment.save();
\* setTimeout(...); res.json(...).
TriggerSaveDeployment(r) ==
  /\ req[r].kind = "route" /\ req[r].pc = "pipelineSaved"
  /\ deployments' = [deployments EXCEPT ![req[r].dep].status = "running",
                                        ![req[r].dep].lastDeployedAt = @ + 1]
  /\ req' = [req EXCEPT ![r].pc = "timer", ![r].answer = "ok"]
  /\ UNCHANGED <<pipelines, mem, rc, oc, built, events>>

\* One step as the timer callback rewrites it.
TimerStep(step) ==
  [step EXCEPT !.status = "completed", !.startTime = TRUE, !.endTime = TRUE,
               !.logs = <<"completed successfully">>]

\* The setTimeout callback up to pipeline.save(): it works on the pipeline
\* document the route created, not on a fresh read.
TimerFire(r) ==
  /\ req[r].kind = "route" /\ req[r].pc = "timer"
  /\ pipelines' = [pipelines EXCEPT
        ![r].status = "completed",
        ![r].endTime = TRUE,
        ![r].steps = [k \in 1..4 |-> TimerStep(RouteSteps(deployments[req[r].dep])[k])]]
  /\ req' = [req EXCEPT ![r].pc = "timerSaved"]
  /\ UNCHANGED <<deployments, mem, rc, oc, built, events>>

\* The callback's deployment.status = 'completed'; deployment.save(), and its
\* emit of the pipeline's status.
TimerSaveDeployment(r) ==
  /\ req[r].kind = "route" /\ req[r].pc = "timerSaved"
  /\ deployments' = [deployments EXCEPT ![req[r].dep].status = "completed"]
  /\ req' = [req EXCEPT ![r].pc = "done"]
  /\ events' = events \cup {StatusEvent(req[r].dep, r, "completed")}
  /\ UNCHANGED <<pipelines, mem, rc, oc, built>>

----------------------------------------------------------------------------
\* PipelineOrchestrator.startPipeline

\* Deployment.findById(deploymentId).
StartLoad(r, d) ==
  /\ req[r].pc \in {"idle", "rejected"}
  /\ req' = [req EXCEPT ![r] = [kind |-> "orch", pc |-> "loaded", dep |-> d,
                                seen |-> ReadStatus(d), answer |-> "none"]]
  /\ UNCHANGED <<deployments, pipelines, mem, rc, oc, built, events>>

\* The "not found" throw, or deployment.status = 'running'; deployment.save().
\* save() writes status only when the assignment changed the loaded value.
StartSaveDeployment(r) ==
  /\ req[r].kind = "orch" /\ req[r].pc = "loaded"
  /\ IF req[r].seen = "absent"
     THEN /\ req' = [req EXCEPT ![r].pc = "rejected", ![r].answer = "NotFound"]
          /\ UNCHANGED deployments
     ELSE /\ deployments' = IF req[r].seen = "running" THEN deployments
                            ELSE [deployments EXCEPT ![req[r].dep].status = "running"]
          /\ req' = [req EXCEPT ![r].pc = "depSaved"]
  /\ UNCHANGED <<pipelines, mem, rc, oc, built, events>>

\* The position of executePipeline once its synchronous code stopped with the
\* in-memory document m: awaiting the collaborator of step m.i, or past the loop.
RunnerPc(m) == IF m.status # "failed" /\ m.i <= Len(m.steps) THEN "exec" ELSE "finishing"

\* buildPipelineSteps, new PipelineModel({... status: 'running' ...}),
\* pipeline.save(), then executePipeline(pipeline) up to its first await and
\* return pipelineId.
StartSavePipeline(r) ==
  /\ req[r].kind = "orch" /\ req[r].pc = "depSaved"
  /\ LET steps == buildPipelineSteps(deployments[req[r].dep], r)
         m == RunLoop([status |-> "running", endTime |-> FALSE, steps |-> steps,
                       dirty |-> {}, i |-> 0], 1)
     IN  /\ pipelines' = pipelines @@ (r :> NewPipeline(req[r].dep, "running", steps))
         /\ mem' = [mem EXCEPT ![r] = m]
         /\ req' = [req EXCEPT ![r].pc = RunnerPc(m), ![r].answer = "ok"]
  /\ UNCHANGED <<deployments, rc, oc, built, events>>

----------------------------------------------------------------------------
\* PipelineOrchestrator.executePipeline / executeStep

\* startPipeline when pipeline.save() (line 46) is rejected: the catch block
\* (lines 54-57) logs and rethrows; nothing is written and nothing is undone.
StartSavePipelineThrows(r) ==
  /\ req[r].kind = "orch" /\ req[r].pc = "depSaved"
  /\ req' = [req EXCEPT ![r].pc = "rejected", ![r].answer = "Error"]
  /\ UNCHANGED <<deployments, pipelines, mem, rc, oc, built, events>>

\* Faulty variant of AfterStep: the check of step.status is missing.
AfterStepNoBreak(m, i) == RunLoop(m, i + 1)

\* executePipeline after executeStep returned for step i: break with
\* pipeline.status = 'failed' when the step failed, otherwise the loop goes on
\* up to the next collaborator call.
AfterStep(m, i) ==
  IF m.steps[i].status = "failed"
  THEN [m EXCEPT !.status = "failed"]
  ELSE RunLoop(m, i + 1)

\* The collaborator call of the current step returns (ok) or throws (~ok):
\* executeStep sets the step's status, logs and endTime and calls
\* pipeline.save(), which writes the steps changed in memory.  Then
\* executePipeline emits 'pipeline-update' with the step and goes on (AfterStep).
ExecReturn(r, ok) ==
  /\ req[r].kind = "orch" /\ req[r].pc = "exec"
  /\ LET i == mem[r].i
         m == [mem[r] EXCEPT !.steps[i] = executeStepEnd(@, ok)]
         saved == [m EXCEPT !.dirty = {}]
         n == AfterStep(saved, i)
     IN  /\ pipelines' = [pipelines EXCEPT ![r].steps = SavedSteps(@, m)]
         /\ mem' = [mem EXCEPT ![r] = n]
         /\ req' = [req EXCEPT ![r].pc = RunnerPc(n)]
         /\ events' = events \cup {StepEvent(req[r].dep, r, i)}
  /\ UNCHANGED <<deployments, rc, oc, built>>

\* Faulty variant of UpdateDeployment: the test of pipeline.status is inverted.
UpdateDeploymentInverted(r) ==
  /\ req[r].kind = "orch" /\ req[r].pc = "finishing"
  /\ IF mem[r].status = "failed"
     THEN /\ mem' = [mem EXCEPT ![r].status = "completed"]
          /\ deployments' = [deployments EXCEPT ![req[r].dep].status = "completed",
                                                ![req[r].dep].lastDeployedAt = @ + 1]
     ELSE /\ deployments' = [deployments EXCEPT ![req[r].dep].status = "failed"]
          /\ UNCHANGED mem
  /\ req' = [req EXCEPT ![r].pc = "depUpdated"]
  /\ UNCHANGED <<pipelines, rc, oc, built, events>>

\* Faulty variant of UpdateDeployment: the deployment is not written.
UpdateDeploymentForgotten(r) ==
  /\ req[r].kind = "orch" /\ req[r].pc = "finishing"
  /\ mem' = [mem EXCEPT ![r].status = IF @ # "failed" THEN "completed" ELSE @]
  /\ req' = [req EXCEPT ![r].pc = "depUpdated"]
  /\ UNCHANGED <<deployments, pipelines, rc, oc, built, events>>

\* After the loop: pipeline.status = 'completed' unless it is 'failed', and
\* Deployment.findByIdAndUpdate with the matching status (lastDeployedAt on
\* 'completed').
UpdateDeployment(r) ==
  /\ req[r].kind = "orch" /\ req[r].pc = "finishing"
  /\ IF mem[r].status # "failed"
     THEN /\ mem' = [mem EXCEPT ![r].status = "completed"]
          /\ deployments' = [deployments EXCEPT ![req[r].dep].status = "completed",
                                                ![req[r].dep].lastDeployedAt = @ + 1]
     ELSE /\ deployments' = [deployments EXCEPT ![req[r].dep].status = "failed"]
          /\ UNCHANGED mem
  /\ req' = [req EXCEPT ![r].pc = "depUpdated"]
  /\ UNCHANGED <<pipelines, rc, oc, built, events>>

\* pipeline.endTime = new Date(); pipeline.save(): status, endTime and the
\* steps changed in memory are written.
Finalise(r) ==
  /\ req[r].kind = "orch" /\ req[r].pc = "depUpdated"
  /\ pipelines' = [pipelines EXCEPT ![r].status = mem[r].status,
                                    ![r].endTime = TRUE,
                                    ![r].steps = SavedSteps(@, mem[r])]
  /\ mem' = [mem EXCEPT ![r].endTime = TRUE, ![r].dirty = {}]
  /\ req' = [req EXCEPT ![r].pc = "done"]
  /\ UNCHANGED <<deployments, rc, oc, built, events>>

----------------------------------------------------------------------------
\* executePipeline's catch block, reached when a storage call inside its try
\* block rejects

\* The collaborator call of the current step returns or throws and the
\* pipeline.save() in executeStep's finally rejects: nothing is written, the
\* error leaves executeStep and the loop, and the catch block sets
\* pipeline.status = 'failed' and pipeline.endTime.
ExecSaveThrows(r, ok) ==
  /\ req[r].kind = "orch" /\ req[r].pc = "exec"
  /\ mem' = [mem EXCEPT ![r].steps[mem[r].i] = executeStepEnd(@, ok),
                         ![r].status = "failed", ![r].endTime = TRUE]
  /\ req' = [req EXCEPT ![r].pc = "caught"]
  /\ UNCHANGED <<deployments, pipelines, rc, oc, built, events>>

\* After the loop Deployment.findByIdAndUpdate rejects: nothing is written and
\* the catch block sets pipeline.status = 'failed' and pipeline.endTime.
UpdateDeploymentThrows(r) ==
  /\ req[r].kind = "orch" /\ req[r].pc = "finishing"
  /\ mem' = [mem EXCEPT ![r].status = "failed", ![r].endTime = TRUE]
  /\ req' = [req EXCEPT ![r].pc = "caught"]
  /\ UNCHANGED <<deployments, pipelines, rc, oc, built, events>>

\* The catch block's pipeline.save().
CatchSave(r) ==
  /\ req[r].kind = "orch" /\ req[r].pc = "caught"
  /\ pipelines' = [pipelines EXCEPT ![r].status = mem[r].status,
                                    ![r].endTime = TRUE,
                                    ![r].steps = SavedSteps(@, mem[r])]
  /\ mem' = [mem EXCEPT ![r].dirty = {}]
  /\ req' = [req EXCEPT ![r].pc = "caughtSaved"]
  /\ UNCHANGED <<deployments, rc, oc, built, events>>

\* The catch block's Deployment.findByIdAndUpdate(..., { status: 'failed' }).
CatchUpdateDeployment(r) ==
  /\ req[r].kind = "orch" /\ req[r].pc = "caughtSaved"
  /\ deployments' = [deployments EXCEPT ![req[r].dep].status = "failed"]
  /\ req' = [req EXCEPT ![r].pc = "done"]
  /\ UNCHANGED <<pipelines, mem, rc, oc, built, events>>

----------------------------------------------------------------------------
\* POST /details/:pipelineId/cancel

\* PipelineModel.findOne({ id }) and the 404 / 400 answers.
CancelRouteLoad(p) ==
  /\ rc.pc = "idle"
  /\ IF StoredStatus(p) \in ActiveStatuses
     THEN rc' = [IdleCancel EXCEPT !.pc = "loaded", !.p = p, !.steps = pipelines[p].steps,
                                   !.seen = StoredStatus(p)]
     ELSE rc' = [IdleCancel EXCEPT !.pc = "answered", !.p = p, !.seen = StoredStatus(p),
                                   !.answer = IF StoredStatus(p) = "absent" THEN "NotFound"
                                              ELSE "InvalidState"]
  /\ UNCHANGED <<deployments, pipelines, req, mem, oc, built, events>>

\* One step as the cancel route rewrites it.
CancelStep(step) ==
  [step EXCEPT !.status = IF step.status \in {"running", "pending"} THEN "cancelled" ELSE @,
               !.endTime = IF step.status = "running" THEN TRUE ELSE @]

\* pipeline.status = 'cancelled', endTime, steps = steps.map(...), pipeline.save():
\* the steps written are those of the document read by findOne.
CancelRouteSave ==
  /\ rc.pc = "loaded"
  /\ pipelines' = [pipelines EXCEPT
        ![rc.p].status = "cancelled",
        ![rc.p].endTime = TRUE,
        ![rc.p].steps = [k \in DOMAIN rc.steps |-> CancelStep(rc.steps[k])]]
  /\ rc' = [rc EXCEPT !.pc = "saved"]
  /\ UNCHANGED <<deployments, req, mem, oc, built, events>>

\* Deployment.findOne({ id: pipeline.deploymentId }).
CancelRouteLoadDeployment ==
  /\ rc.pc = "saved"
  /\ rc' = [rc EXCEPT !.pc = "depLoaded",
                      !.depSeen = ReadStatus(pipelines[rc.p].deploymentId)]
  /\ UNCHANGED <<deployments, pipelines, req, mem, oc, built, events>>

\* if (deployment && deployment.status === 'running') { status = 'cancelled';
\* deployment.save() }, the emit of the pipeline's status, and the answer.
CancelRouteSaveDeployment ==
  /\ rc.pc = "depLoaded"
  /\ deployments' = IF rc.depSeen = "running"
                    THEN [deployments EXCEPT ![pipelines[rc.p].deploymentId].status = "cancelled"]
                    ELSE deployments
  /\ rc' = [rc EXCEPT !.pc = "answered", !.answer = "ok"]
  /\ events' = events \cup {StatusEvent(pipelines[rc.p].deploymentId, rc.p, "cancelled")}
  /\ UNCHANGED <<pipelines, req, mem, oc, built>>

\* The answer is sent and the handler ends.
CancelRouteReturn ==
  /\ rc.pc = "answered"
  /\ rc' = IdleCancel
  /\ UNCHANGED <<deployments, pipelines, req, mem, oc, built, events>>

----------------------------------------------------------------------------
\* PipelineOrchestrator.cancelPipeline

\* PipelineModel.findOne({ id }); the call returns without an error when the
\* pipeline is absent or its status is not 'running'.
CancelPipelineLoad(p) ==
  /\ oc.pc = "idle"
  /\ IF StoredStatus(p) = "running"
     THEN oc' = [IdleCancel EXCEPT !.pc = "loaded", !.p = p, !.seen = StoredStatus(p)]
     ELSE oc' = [IdleCancel EXCEPT !.pc = "answered", !.p = p, !.seen = StoredStatus(p),
                                   !.answer = "ok"]
  /\ UNCHANGED <<deployments, pipelines, req, mem, rc, built, events>>

\* pipeline.status = 'cancelled'; pipeline.endTime = new Date(); pipeline.save().
CancelPipelineSave ==
  /\ oc.pc = "loaded"
  /\ pipelines' = [pipelines EXCEPT ![oc.p].status = "cancelled", ![oc.p].endTime = TRUE]
  /\ oc' = [oc EXCEPT !.pc = "saved"]
  /\ UNCHANGED <<deployments, req, mem, rc, built, events>>

\* Deployment.findByIdAndUpdate(pipeline.deploymentId, { status: 'cancelled' }).
CancelPipelineUpdateDeployment ==
  /\ oc.pc = "saved"
  /\ deployments' = [deployments EXCEPT ![pipelines[oc.p].deploymentId].status = "cancelled"]
  /\ oc' = [oc EXCEPT !.pc = "answered", !.answer = "ok"]
  /\ UNCHANGED <<pipelines, req, mem, rc, built, events>>

\* The promise resolves and the call ends.
CancelPipelineReturn ==
  /\ oc.pc = "answered"
  /\ oc' = IdleCancel
  /\ UNCHANGED <<deployments, pipelines, req, mem, rc, built, events>>

----------------------------------------------------------------------------
\* The HTTP routes: trigger with its timer callback, and cancel.
NextRoute ==
  \/ \E r \in Requests, d \in DeploymentIds : TriggerLoad(r, d)
  \/ \E r \in Requests : TriggerCreate(r)
  \/ \E r \in Requests : TriggerSaveDeployment(r)
  \/ \E r \in Requests : TimerFire(r)
  \/ \E r \in Requests : TimerSaveDeployment(r)
  \/ \E p \in Requests : CancelRouteLoad(p)
  \/ CancelRouteSave
  \/ CancelRouteLoadDeployment
  \/ CancelRouteSaveDeployment
  \/ CancelRouteReturn

\* The orchestrator's start and runner, any number of runs side by side.
NextRun ==
  \/ \E r \in Requests, d \in DeploymentIds : StartLoad(r, d)
  \/ \E r \in Requests : StartSaveDeployment(r)
  \/ \E r \in Requests : StartSavePipeline(r)
  \/ \E r \in Requests, ok \in BOOLEAN : ExecReturn(r, ok)
  \/ \E r \in Requests : UpdateDeployment(r)
  \/ \E r \in Requests : Finalise(r)

\* The orchestrator with cancellation: startPipeline, the runner and
\* cancelPipeline, and the cancel route acting on the same Pipeline collection.
NextOrch ==
  \/ \E r \in Runs, d \in DeploymentIds : StartLoad(r, d)
  \/ \E r \in Runs : StartSaveDeployment(r)
  \/ \E r \in Runs : StartSavePipeline(r)
  \/ \E r \in Runs, ok \in BOOLEAN : ExecReturn(r, ok)
  \/ \E r \in Runs : UpdateDeployment(r)
  \/ \E r \in Runs : Finalise(r)
  \/ \E p \in Requests : CancelRouteLoad(p)
  \/ CancelRouteSave
  \/ CancelRouteLoadDeployment
  \/ CancelRouteSaveDeployment
  \/ CancelRouteReturn
  \/ \E p \in Requests : CancelPipelineLoad(p)
  \/ CancelPipelineSave
  \/ CancelPipelineUpdateDeployment
  \/ CancelPipelineReturn

\* buildPipelineSteps applied to the deployment record: call b draws its
\* identifiers from a seed no other call drew from.
Build(b, seed) ==
  /\ built[b] = <<>>
  /\ \A c \in Builds : built[c] # <<>> => built[c][1].id[1] # seed
  /\ built' = [built EXCEPT ![b] = buildPipelineSteps(deployments["d1"], seed)]
  /\ UNCHANGED <<deployments, pipelines, req, mem, rc, oc, events>>

NextBuild == \E b \in Builds, seed \in Seeds : Build(b, seed)

\* Step lists executePipeline may be handed: three steps, the first and the
\* last in any status, dependencies on earlier steps, on a later step and on
\* an identifier no step has (<<1, 0>>).
ScanSteps ==
  { << [NewStep(<<1, 1>>, "clone", {}) EXCEPT !.status = st1],
       NewStep(<<1, 2>>, "terraform-plan", d2),
       [NewStep(<<1, 3>>, "helm-deploy", d3) EXCEPT !.status = st3] >> :
      st1 \in StepStatuses, st3 \in StepStatuses,
      d2 \in SUBSET {<<1, 1>>, <<1, 3>>, <<1, 0>>},
      d3 \in SUBSET {<<1, 1>>, <<1, 2>>} }

\* executePipeline(pipeline) at its first await, for a running pipeline of d1
\* with any of these step lists.
InitScan ==
  /\ deployments = [d \in {"d1"} |->
                      [status |-> "running", lastDeployedAt |-> 0,
                       sections |-> {"terraform", "helm"}, deploymentType |-> "hybrid"]]
  /\ \E steps \in ScanSteps :
       LET m == RunLoop([status |-> "running", endTime |-> FALSE, steps |-> steps,
                         dirty |-> {}, i |-> 0], 1)
       IN  /\ pipelines = (1 :> NewPipeline("d1", "running", steps))
           /\ mem = [r \in Requests |-> IF r = 1 THEN m ELSE NoMem]
           /\ req = [r \in Requests |->
                       IF r = 1 THEN [kind |-> "orch", pc |-> RunnerPc(m), dep |-> "d1",
                                      seen |-> "pending", answer |-> "ok"]
                       ELSE IdleReq]
  /\ rc = IdleCancel
  /\ oc = IdleCancel
  /\ built = [b \in Builds |-> <<>>]
  /\ events = {}

\* The runner alone, from executePipeline's first await on.
NextScan ==
  \/ \E r \in Runs, ok \in BOOLEAN : ExecReturn(r, ok)
  \/ \E r \in Runs : UpdateDeployment(r)
  \/ \E r \in Runs : Finalise(r)

\* The orchestrator's start and runner where a storage call of the runner may
\* reject.
NextFault ==
  \/ NextRun
  \/ \E r \in Requests : StartSavePipelineThrows(r)
  \/ \E r \in Requests, ok \in BOOLEAN : ExecSaveThrows(r, ok)
  \/ \E r \in Requests : UpdateDeploymentThrows(r)
  \/ \E r \in Requests : CatchSave(r)
  \/ \E r \in Requests : CatchUpdateDeployment(r)

----------------------------------------------------------------------------
\* GitHubService.cloneRepository and the workspace

\* Repository URLs, cut into pieces at every "/" and before a final ".git":
\* two owners with a repository of the same name, with and without the suffix.
RepoUrls ==
  { <<"github.com", "/", "acme", "/", "app", ".git">>,
    <<"github.com", "/", "other", "/", "app", ".git">>,
    <<"github.com", "/", "acme", "/", "api">>,
    <<"github.com", "/", "other", "/", "api", ".git">> }

\* The deployments of the workspace specification.
CloneDeploymentIds == {"d1", "d2"}

\* repoUrl.match(/\/([^\/]+)\.git$/) gives the piece between the last "/" and
\* a final ".git" when that piece is not empty; otherwise the last part of
\* repoUrl.split('/').
extractRepoName(repoUrl) ==
  LET n == Len(repoUrl)
      slashes == {k \in 1..n : repoUrl[k] = "/"}
      last == IF slashes = {} THEN 0 ELSE CHOOSE k \in slashes : \A j \in slashes : j <= k
  IN  IF n > 0 /\ repoUrl[n] = ".git" /\ last > 0 /\ last < n - 1
      THEN SubSeq(repoUrl, last + 1, n - 1)
      ELSE SubSeq(repoUrl, last + 1, n)

\* localPath = path.join(this.workspaceDir, repoName): the directory
\* cloneRepository removes and clones into.
localPath(repoUrl) == <<"/tmp/deployments", "/">> \o extractRepoName(repoUrl)

\* Two deployments with a helm section, each pointing at any of the
\* repositories.
InitClone ==
  /\ \E repo \in [CloneDeploymentIds -> RepoUrls] :
       deployments = [d \in CloneDeploymentIds |->
                        [status |-> "pending", lastDeployedAt |-> 0,
                         sections |-> {"helm"}, deploymentType |-> "helm",
                         githubRepo |-> repo[d]]]
  /\ pipelines = <<>>
  /\ req = [r \in Requests |-> IdleReq]
  /\ mem = [r \in Requests |-> NoMem]
  /\ rc = IdleCancel
  /\ oc = IdleCancel
  /\ built = [b \in Builds |-> <<>>]
  /\ events = {}

\* startPipeline and the runner for the two deployments, runs side by side.
NextClone ==
  \/ \E r \in Requests, d \in CloneDeploymentIds : StartLoad(r, d)
  \/ \E r \in Requests : StartSaveDeployment(r)
  \/ \E r \in Requests : StartSavePipeline(r)
  \/ \E r \in Requests, ok \in BOOLEAN : ExecReturn(r, ok)
  \/ \E r \in Requests : UpdateDeployment(r)
  \/ \E r \in Requests : Finalise(r)

\* The trigger route with its timer and the orchestrator's start and runner,
\* on the same collections; no pipeline is cancelled.
NextLive ==
  \/ \E r \in Runs, d \in DeploymentIds : TriggerLoad(r, d)
  \/ \E r \in Runs : TriggerCreate(r)
  \/ \E r \in Runs : TriggerSaveDeployment(r)
  \/ \E r \in Runs : TimerFire(r)
  \/ \E r \in Runs : TimerSaveDeployment(r)
  \/ \E r \in Runs, d \in DeploymentIds : StartLoad(r, d)
  \/ \E r \in Runs : StartSaveDeployment(r)
  \/ \E r \in Runs : StartSavePipeline(r)
  \/ \E r \in Runs, ok \in BOOLEAN : ExecReturn(r, ok)
  \/ \E r \in Runs : UpdateDeployment(r)
  \/ \E r \in Runs : Finalise(r)

\* What request r does once the storage call, collaborator call or timer it
\* waits for has ended: the continuation after an await of the trigger route
\* or of startPipeline / executePipeline, or the setTimeout callback.
Continue(r) ==
  \/ TriggerCreate(r)
  \/ TriggerSaveDeployment(r)
  \/ TimerFire(r)
  \/ TimerSaveDeployment(r)
  \/ StartSaveDeployment(r)
  \/ StartSavePipeline(r)
  \/ \E ok \in BOOLEAN : ExecReturn(r, ok)
  \/ UpdateDeployment(r)
  \/ Finalise(r)

\* Node's event loop runs every continuation whose promise has settled and
\* every timer callback that is due; storage and collaborator calls settle.
\* Nothing obliges a client to send a further request.
Fairness == \A r \in Runs : WF_vars(Continue(r))

SpecRoute == Init /\ [][NextRoute]_vars

SpecRun == Init /\ [][NextRun]_vars

SpecOrch == Init /\ [][NextOrch]_vars

SpecFault == Init /\ [][NextFault]_vars

SpecClone == InitClone /\ [][NextClone]_vars

SpecLive == InitBuild /\ [][NextLive]_vars /\ Fairness

SpecBuild == InitBuild /\ [][NextBuild]_vars

SpecScan == InitScan /\ [][NextScan]_vars

----------------------------------------------------------------------------
\* Vocabulary of the properties

\* The stored pipelines of deployment d whose status is pending or running.
ActivePipelines(d) ==
  {p \in DOMAIN pipelines :
     pipelines[p].deploymentId = d /\ pipelines[p].status \in ActiveStatuses}

\* No handler stands between two of its storage calls.
Quiescent ==
  /\ \A r \in Requests : req[r].pc \in {"idle", "rejected", "timer", "exec", "done"}
  /\ rc.pc = "idle"
  /\ oc.pc = "idle"

\* No trigger or run of pipeline p's deployment stands between two of its
\* storage calls, and no other cancel is under way.
Settled(p) ==
  /\ \A r \in Requests : req[r].pc \in {"idle", "rejected", "timer", "exec", "done"}
  /\ (rc.pc = "idle" \/ oc.pc = "idle")

\* In this step the runner of pipeline r calls the collaborator of a further step.
StepStarted(r) ==
  /\ req'[r].kind = "orch" /\ req'[r].pc = "exec"
  /\ mem'[r].i # mem[r].i

\* Step j of steps depends on step k, directly or through other steps.
RECURSIVE DependsOn(_, _, _)
DependsOn(steps, j, k) ==
  \E depId \in steps[j].dependencies :
     LET d == FindStep(steps, depId)
     IN  d # 0 /\ d < j /\ (d = k \/ DependsOn(steps, d, k))

----------------------------------------------------------------------------
\* C1: once a stored pipeline's status is completed, failed or cancelled, no
\* step of any handler (runner finalisation, cancelPipeline, cancel route)
\* changes it.
C1_TerminalStatusSticky ==
  [][\A p \in DOMAIN pipelines :
        pipelines[p].status \in TerminalStatuses
           => pipelines'[p].status = pipelines[p].status]_vars

\* C2: two trigger requests for the same deployment that are in flight
\* together never both create a pipeline (both standing between their
\* pipeline.save() and their deployment.save()).
C2_OneTriggerWins ==
  \A r1, r2 \in Requests :
     (r1 # r2 /\ req[r1].kind = "route" /\ req[r2].kind = "route"
        /\ req[r1].dep = req[r2].dep)
       => ~(req[r1].pc = "pipelineSaved" /\ req[r2].pc = "pipelineSaved")

\* C3: a deployment never has two pipelines that are pending or running, and,
\* whenever no handler stands between two of its storage calls, a deployment
\* whose status is running has exactly one such pipeline.
C3_OneActivePipeline ==
  \A d \in DOMAIN deployments :
     /\ Cardinality(ActivePipelines(d)) <= 1
     /\ (Quiescent /\ deployments[d].status = "running")
           => Cardinality(ActivePipelines(d)) = 1

\* C4: a trigger that read no deployment answers NotFound, a trigger that read
\* status running answers Conflict, and neither creates a pipeline.
C4_TriggerRefused ==
  \A r \in Requests :
     (req[r].kind # "none" /\ req[r].pc # "loaded")
       => /\ req[r].seen = "absent"
               => (req[r].answer = "NotFound" /\ r \notin DOMAIN pipelines)
          /\ req[r].seen = "running"
               => (req[r].answer \in {"none", "Conflict"} /\ r \notin DOMAIN pipelines)

\* C5: a cancel that read a pipeline whose status is completed, failed or
\* cancelled answers InvalidState and writes nothing.
C5_CancelTerminalRefused ==
  [][/\ (rc.pc = "idle" /\ rc'.pc # "idle" /\ rc'.seen \in TerminalStatuses)
          => (rc'.answer = "InvalidState" /\ UNCHANGED <<deployments, pipelines>>)
     /\ (oc.pc = "idle" /\ oc'.pc # "idle" /\ oc'.seen \in TerminalStatuses)
          => (oc'.answer = "InvalidState" /\ UNCHANGED <<deployments, pipelines>>)]_vars

\* What C6 asks of the store when the cancel of pipeline p returns.
Cancelled(p) ==
  /\ pipelines[p].status = "cancelled"
  /\ pipelines[p].endTime
  /\ \A k \in DOMAIN pipelines[p].steps :
        pipelines[p].steps[k].status \notin {"running", "pending"}
  /\ deployments[pipelines[p].deploymentId].status = "cancelled"

\* C6: when a cancel of a pipeline it read as running or pending returns, the
\* pipeline is cancelled with its end timestamp set, none of its steps is
\* running or pending, and the owning deployment is cancelled.
C6_CancelEffect ==
  /\ (rc.pc = "answered" /\ rc.answer = "ok" /\ rc.seen \in ActiveStatuses /\ Settled(rc.p))
        => Cancelled(rc.p)
  /\ (oc.pc = "answered" /\ oc.answer = "ok" /\ oc.seen \in ActiveStatuses /\ Settled(oc.p))
        => Cancelled(oc.p)

\* C7: once the stored status of a pipeline is cancelled, its runner calls the
\* collaborator of no further step.
C7_NoStepAfterCancel ==
  [][\A r \in Requests : StoredStatus(r) = "cancelled" => ~StepStarted(r)]_vars

\* C8: when the collaborator call of a step returns after the pipeline was
\* cancelled, the runner overwrites neither the step's stored status cancelled
\* nor the deployment's status cancelled.
C8_ReturnKeepsCancelled ==
  [][\A r \in Requests :
        (req[r].kind = "orch" /\ req[r].pc \in {"exec", "finishing", "depUpdated"}
           /\ StoredStatus(r) = "cancelled" /\ <<req[r], mem[r]>> # <<req'[r], mem'[r]>>)
          => /\ \A k \in DOMAIN pipelines[r].steps :
                   pipelines[r].steps[k].status = "cancelled"
                     => pipelines'[r].steps[k].status = "cancelled"
             /\ deployments[req[r].dep].status = "cancelled"
                   => deployments'[req[r].dep].status = "cancelled"]_vars

\* C9: when a run has ended and step k of it is failed, the pipeline is failed
\* and every step that depends on k, directly or transitively, is skipped.
C9_FailureSkipsDependents ==
  \A r \in Requests :
     (req[r].kind = "orch" /\ req[r].pc = "done")
       => \A k \in DOMAIN pipelines[r].steps :
             pipelines[r].steps[k].status = "failed"
               => /\ pipelines[r].status = "failed"
                  /\ \A j \in DOMAIN pipelines[r].steps :
                        DependsOn(pipelines[r].steps, j, k)
                          => pipelines[r].steps[j].status = "skipped"

\* C10: the deployment's status written at the end of a run is the pipeline's
\* terminal status, and lastDeployedAt is written only by a handler whose
\* pipeline is completed.
C10_DeploymentFollowsPipeline ==
  [][\A r \in Requests :
        (req[r] # req'[r] /\ req[r].dep \in DOMAIN deployments)
          => /\ (req'[r].pc = "depUpdated" /\ req[r].pc = "finishing")
                   => deployments'[req[r].dep].status = mem'[r].status
             /\ deployments'[req[r].dep].lastDeployedAt # deployments[req[r].dep].lastDeployedAt
                   => (r \in DOMAIN pipelines'
                         /\ "completed" \in {pipelines'[r].status, mem'[r].status})]_vars

\* The run of slot r has ended.
RunEnded(r) == req[r].kind = "orch" /\ req[r].pc = "done"

\* C11: when a run has ended, the stored pipeline has its end timestamp set;
\* if its status is completed, every step is completed or skipped; if its
\* status is failed, at least one step is failed.
C11_StatusFromSteps ==
  \A r \in Requests :
     RunEnded(r)
       => LET p == pipelines[r]
              statuses == {p.steps[k].status : k \in DOMAIN p.steps}
          IN  /\ p.endTime
              /\ p.status \in {"completed", "failed"}
              /\ p.status = "completed" => statuses \subseteq {"completed", "skipped"}
              /\ p.status = "failed" => "failed" \in statuses

----------------------------------------------------------------------------
\* Properties of the step lists buildPipelineSteps returns

\* The sections of the deployment record the builds are made from.
BuildSections == deployments["d1"].sections

\* The types of a step list, in order.
StepTypes(steps) == [k \in DOMAIN steps |-> steps[k].type]

\* The positions the dependencies of step k of steps point to (0: no step).
DepPositions(steps, k) == {FindStep(steps, depId) : depId \in steps[k].dependencies}

\* C12: built from a configuration with a helm section and neither terraform
\* nor ansible, the list is clone, helm-deploy, and helm-deploy's dependencies
\* are exactly the clone step's identifier.
C12_HelmOnlyBuild ==
  \A b \in Builds :
     (built[b] # <<>> /\ BuildSections = {"helm"})
       => /\ StepTypes(built[b]) = <<"clone", "helm-deploy">>
          /\ built[b][2].dependencies = {built[b][1].id}

C12_Witness == \E b \in Builds : built[b] # <<>> /\ BuildSections = {"helm"}

\* C13: built from a configuration with terraform and helm sections and no
\* ansible section, the list is clone, terraform-plan, terraform-apply,
\* helm-deploy, and each step after clone depends on exactly the step before it.
C13_TerraformHelmBuild ==
  \A b \in Builds :
     (built[b] # <<>> /\ BuildSections = {"terraform", "helm"})
       => /\ StepTypes(built[b]) =
                <<"clone", "terraform-plan", "terraform-apply", "helm-deploy">>
          /\ \A k \in 2..4 : built[b][k].dependencies = {built[b][k - 1].id}

C13_Witness == \E b \in Builds : built[b] # <<>> /\ BuildSections = {"terraform", "helm"}

\* C14: two builds from the same deployment record agree in step types, order
\* and the positions the dependencies point to, and all their steps are
\* pending with no timestamps; the identifiers may differ.
C14_BuildTwice ==
  (\A b \in Builds : built[b] # <<>>)
    => /\ StepTypes(built["first"]) = StepTypes(built["second"])
       /\ \A k \in DOMAIN built["first"] :
             /\ DepPositions(built["first"], k) = DepPositions(built["second"], k)
             /\ 0 \notin DepPositions(built["first"], k)
       /\ \A b \in Builds : \A k \in DOMAIN built[b] :
             /\ built[b][k].status = "pending"
             /\ ~built[b][k].startTime /\ ~built[b][k].endTime

C14_Witness ==
  /\ \A b \in Builds : Len(built[b]) > 1
  /\ built["first"][1].id # built["second"][1].id

\* C20: in every built list the first step is clone without dependencies,
\* every dependency of a later step is the identifier of a step at a smaller
\* index, and ansible-run, when the configuration has an ansible section, is
\* the last step and depends on the step just before it.
C20_DependenciesPointBack ==
  \A b \in Builds :
     built[b] # <<>>
       => LET steps == built[b]
              n == Len(steps)
          IN  /\ steps[1].type = "clone" /\ steps[1].dependencies = {}
              /\ \A k \in 2..n :
                    /\ steps[k].dependencies # {}
                    /\ DepPositions(steps, k) \subseteq 1..(k - 1)
                    /\ steps[k].type = "ansible-run" => k = n
              /\ "ansible" \in BuildSections
                    => /\ steps[n].type = "ansible-run"
                       /\ DepPositions(steps, n) = {n - 1}
              /\ "ansible" \notin BuildSections
                    => \A k \in 1..n : steps[k].type # "ansible-run"

C20_Witness ==
  \E b \in Builds :
     Len(built[b]) = 5 /\ BuildSections = {"terraform", "helm", "ansible"}

----------------------------------------------------------------------------
\* Properties of a run

\* No other slot has written anything for a run of its own.
OnlyRun(r) == \A q \in Requests \ {r} : req[q].pc \in {"idle", "rejected", "loaded"}

\* A collaborator call of run r has failed: the step's executeStep ended with
\* status failed (steps handed over as failed have no end timestamp).
FailedInRun(r) ==
  \E k \in DOMAIN mem[r].steps :
     mem[r].steps[k].status = "failed" /\ mem[r].steps[k].endTime

C16_TerminalEventEmitted ==
  \A r \in Requests :
     RunEnded(r)
       => StatusEvent(req[r].dep, r, pipelines[r].status) \in events

C18_NoStepAfterFailure ==
  [][\A r \in Requests : FailedInRun(r) => ~StepStarted(r)]_vars

\* A run ended after a failure and left a step that nothing but the failure
\* kept from running: it has no dependencies and was never started.
C18_Witness ==
  \E r \in Requests :
     /\ RunEnded(r) /\ FailedInRun(r)
     /\ \E k \in DOMAIN mem[r].steps :
           /\ mem[r].steps[k].dependencies = {}
           /\ mem[r].steps[k].status = "pending"

----------------------------------------------------------------------------
\* Ordering of the runner's writes and events

\* The runner of slot r is awaiting the collaborator of step mem[r].i.
Executing(r) == req[r].kind = "orch" /\ req[r].pc = "exec"

C22_RunningPersistedBeforeCall ==
  \A r \in Requests :
     Executing(r)
       => /\ pipelines[r].steps[mem[r].i].status = "running"
          /\ pipelines[r].steps[mem[r].i].startTime

----------------------------------------------------------------------------
\* The skip path of the loop

\* The loop of run r has passed step k.
Passed(r, k) ==
  /\ req[r].kind = "orch" /\ k \in DOMAIN mem[r].steps
  /\ (k < mem[r].i \/ req[r].pc \in {"finishing", "depUpdated", "done"})
  /\ ~(mem[r].status = "failed" /\ k > mem[r].i)

\* C23: a step the loop marked skipped has no start timestamp, no end
\* timestamp and no log line of executeStep, in memory and in the store once
\* the run has ended; and the loop never goes back to a step it has passed.
C23_SkippedNeverRun ==
  /\ [](\A r \in Requests : \A k \in DOMAIN mem[r].steps :
          (Passed(r, k) /\ mem[r].steps[k].status = "skipped")
            => /\ ~mem[r].steps[k].startTime /\ ~mem[r].steps[k].endTime
               /\ mem[r].steps[k].logs = <<>>
               /\ RunEnded(r) => /\ pipelines[r].steps[k].status = "skipped"
                                  /\ ~pipelines[r].steps[k].startTime
                                  /\ ~pipelines[r].steps[k].endTime)
  /\ [][\A r \in Requests : StepStarted(r) => mem'[r].i > mem[r].i]_vars

C23_Witness ==
  \E r \in Requests : \E k \in DOMAIN mem[r].steps :
     RunEnded(r) /\ Passed(r, k) /\ mem[r].steps[k].status = "skipped"

\* Step k of run r has a dependency on a later step that is not yet started
\* and whose status in the store is pending or running.
Blocked(r, k) ==
  \E depId \in mem[r].steps[k].dependencies :
     LET j == FindStep(mem[r].steps, depId)
     IN  /\ j > k /\ j >= mem[r].i
         /\ pipelines[r].steps[j].status \in {"pending", "running"}

\* C25: while a later step is being executed, an earlier step that was
\* blocked is skipped and was not run, and the pipeline is not failed for it;
\* and a run that ends without a failed collaborator call has passed every
\* step (each is skipped or completed) and ends completed.
C25_BlockedIsSkipped ==
  \A r \in Requests :
     /\ Executing(r)
           => \A k \in 1..(mem[r].i - 1) :
                 Blocked(r, k)
                   => /\ mem[r].steps[k].status = "skipped"
                      /\ mem[r].steps[k].logs = <<>>
                      /\ mem[r].status # "failed"
     /\ (RunEnded(r) /\ ~FailedInRun(r))
           => /\ pipelines[r].status = "completed"
              /\ \A k \in DOMAIN mem[r].steps :
                    \/ mem[r].steps[k].status = "skipped"
                    \/ mem[r].steps[k].status = "completed" /\ mem[r].steps[k].endTime

C25_Witness ==
  \E r \in Requests :
     /\ Executing(r)
     /\ \E k \in 1..(mem[r].i - 1) : Blocked(r, k) /\ mem[r].steps[k].status = "skipped"

----------------------------------------------------------------------------
\* The statuses in which a step has ended.
StepTerminalStatuses == {"completed", "failed", "skipped", "cancelled"}

\* C24: a stored step that is pending or running has no end timestamp; the
\* end timestamp is written only in a step that takes the stored step from
\* pending or running to a status in which it has ended; and once it is
\* written, neither it nor the step's status changes again.
C24_EndTimeWrittenOnce ==
  [][\A p \in DOMAIN pipelines : \A k \in DOMAIN pipelines[p].steps :
        LET old == pipelines[p].steps[k]
            new == pipelines'[p].steps[k]
        IN  /\ old.status \in {"pending", "running"} => ~old.endTime
            /\ old.endTime => (new.endTime /\ new.status = old.status)
            /\ (~old.endTime /\ new.endTime)
                  => /\ old.status \in {"pending", "running"}
                     /\ new.status \in StepTerminalStatuses]_vars

\* C26: when startPipeline threw because a storage write was rejected, and no
\* other call is writing, the deployment's status is the one the call read and
\* no pipeline record of the attempt is stored.
C26_FailedTriggerLeavesNoTrace ==
  \A r \in Requests :
    (req[r].pc = "rejected" /\ req[r].answer = "Error" /\ OnlyRun(r))
      => /\ ReadStatus(req[r].dep) = req[r].seen
         /\ r \notin DOMAIN pipelines

\* C27: when no handler is between two of its storage calls, a deployment
\* with a stored pipeline whose status is pending or running has status
\* running.
C27_ActivePipelineMeansRunning ==
  Quiescent =>
    \A d \in DOMAIN deployments :
      ActivePipelines(d) # {} => deployments[d].status = "running"

\* C28: every stored step has a type and a status that the step schema allows.
C28_StoredStepsFitSchema ==
  \A p \in DOMAIN pipelines : \A k \in DOMAIN pipelines[p].steps :
     /\ pipelines[p].steps[k].type \in SchemaStepTypes
     /\ pipelines[p].steps[k].status \in SchemaStepStatuses

\* C29: once a trigger has answered with the pipeline's identifier, the
\* pipeline's stored status eventually is completed, failed or cancelled and
\* the deployment's stored status eventually is not running; and the answer
\* is given while the timer or the runner of the pipeline has yet to act.
C29_TriggeredPipelineEnds ==
  /\ \A r \in Requests :
        (req[r].answer = "ok") ~> (StoredStatus(r) \in TerminalStatuses)
  /\ \A r \in Requests :
        (req[r].answer = "ok") ~> (ReadStatus(req[r].dep) # "running")
  /\ [][\A r \in Requests :
          (req[r].answer # "ok" /\ req'[r].answer = "ok")
            => req'[r].pc \in {"timer", "exec"}]_vars

\* An answered startPipeline whose run went through more than one step, whose
\* pipeline has ended and whose deployment is no longer running.
C29_Witness ==
  \E r \in Requests :
    /\ req[r].kind = "orch" /\ req[r].answer = "ok" /\ req[r].pc = "done"
    /\ Len(pipelines[r].steps) > 1
    /\ StoredStatus(r) \in TerminalStatuses
    /\ ReadStatus(req[r].dep) # "running"

----------------------------------------------------------------------------
\* The clone workspace

\* The directory the clone step of run r removes and clones into.
CloneDir(r) == localPath(deployments[req[r].dep].githubRepo)

\* The clone call of run r is under way.
Cloning(r) == Executing(r) /\ mem[r].steps[mem[r].i].type = "clone"

\* Run r has cloned and a later step of it is under way.
UsingClone(r) ==
  /\ Executing(r)
  /\ mem[r].i > 1
  /\ mem[r].steps[1].type = "clone" /\ mem[r].steps[1].status = "completed"

\* C30: while the clone call of one run is under way, no run of another
\* deployment that has cloned and is at a later step has the same clone
\* directory.
C30_CloneDirectoriesApart ==
  \A r \in Requests : \A q \in Requests \ {r} :
    (Cloning(r) /\ UsingClone(q) /\ req[r].dep # req[q].dep)
      => CloneDir(r) # CloneDir(q)

====
